---- MODULE Spec2Model ----
(***************************************************************************)
(* Model of optimizer.py: the SEOWorkerThread pipeline (extract, search,   *)
(* rewrite) running on its own thread, and the SEOOptimizerApp handlers     *)
(* that start it and receive its queued signals on the GUI thread.         *)
(*                                                                         *)
(* Text is a sequence of one-character strings, so that str.split and      *)
(* str.strip are computed, not assumed.                                    *)
(***************************************************************************)
EXTENDS Integers, Sequences, FiniteSets, TLC

VARIABLES
    process_btn_enabled,  \* self.process_btn.isEnabled()
    progress_visible,     \* self.progress_bar.isVisible()
    output_text,          \* self.output_text contents
    status_label,         \* self.status_label text
    message_box,          \* the QMessageBox the latest GUI handler showed
    workers,              \* the SEOWorkerThread objects still alive, oldest first
    queue,                \* signals queued to the GUI thread, oldest first
    started,              \* number of workers started so far
    content,              \* parsing harness: a response text
    parsed                \* parsing harness: the terms parsed from it

vars == <<process_btn_enabled, progress_visible, output_text, status_label,
          message_box, workers, queue, started, content, parsed>>

shellVars == <<process_btn_enabled, progress_visible, output_text,
               status_label, message_box>>

harnessVars == <<content, parsed>>

----------------------------------------------------------------------------
(* Bounds *)

MaxRuns == 2      \* workers started in one session
MaxLines == 11    \* lines of a response text in the parsing harness

(* Program constants *)

MaxTerms == 10         \* search_terms[:10]
MaxPerPage == 5        \* find_all(...)[:5]
MaxContext == 20       \* search_results[:20]
HTTP_OK == 200         \* response.status_code == 200

----------------------------------------------------------------------------
(* Text helpers *)

Min(a, b) == IF a < b THEN a ELSE b

NL == "\n"

Whitespace == {" ", NL}

Take(s, n) == SubSeq(s, 1, Min(n, Len(s)))

RECURSIVE LStrip(_)
LStrip(s) ==
    IF s # <<>> /\ Head(s) \in Whitespace THEN LStrip(Tail(s)) ELSE s

RECURSIVE RStrip(_)
RStrip(s) ==
    IF s # <<>> /\ s[Len(s)] \in Whitespace
    THEN RStrip(SubSeq(s, 1, Len(s) - 1))
    ELSE s

\* str.strip()
Strip(s) == RStrip(LStrip(s))

\* str.split('\n'): always at least one piece
RECURSIVE Split(_)
Split(s) ==
    IF \E i \in 1..Len(s) : s[i] = NL
    THEN LET i == CHOOSE k \in 1..Len(s) :
                      s[k] = NL /\ \A j \in 1..(k - 1) : s[j] # NL
         IN  <<SubSeq(s, 1, i - 1)>> \o Split(SubSeq(s, i + 1, Len(s)))
    ELSE <<s>>

\* [term.strip() for term in lines if term.strip()]
RECURSIVE StripNonBlank(_)
StripNonBlank(lines) ==
    IF lines = <<>> THEN <<>>
    ELSE IF Strip(Head(lines)) # <<>>
         THEN <<Strip(Head(lines))>> \o StripNonBlank(Tail(lines))
         ELSE StripNonBlank(Tail(lines))

\* ParseTerms without the [:10]
ParseTermsUnlimited(text) == StripNonBlank(Split(text))

\* the parsing of extract_search_terms
ParseTerms(text) == Take(StripNonBlank(Split(text)), MaxTerms)

----------------------------------------------------------------------------
(* Inputs *)

\* what the user may have typed in the text box and in the key field
InputTexts == {<<>>, <<" ">>, <<" ", "t", NL>>}
ApiKeys == {<<>>, <<" ">>, <<"k", " ">>}

\* response texts of the extract request: no term, two terms, five terms
ExtractContents ==
    { <<" ", NL>>,
      <<"a", NL, NL, " ", "b">>,
      <<"a", NL, "b", NL, "c", NL, "d", NL, "e", NL>> }

\* response texts of the rewrite request
RewriteContents == { <<" ", "o", NL>> }

ErrorStatus == 500

\* a language-model response: an HTTP response, or the request raised
ClaudeResponses(texts) ==
    [status : {HTTP_OK}, text : texts]
      \cup [status : {ErrorStatus}, text : {<<"e", "r", "r">>}]
      \cup {[raised |-> "ConnectionError"]}

\* a result container of a search page
Container(term, k, hasTitle, hasSnippet) ==
    [title |-> <<term, k>>, description |-> <<"d", term, k>>,
     url |-> <<"u", term, k>>, hasTitle |-> hasTitle, hasSnippet |-> hasSnippet]

FullPage(term) == [k \in 1..(MaxPerPage + 1) |-> Container(term, k, TRUE, TRUE)]

MixedPage(term) ==
    << Container(term, 1, FALSE, TRUE), Container(term, 2, TRUE, TRUE),
       Container(term, 3, TRUE, FALSE) >>

\* a search response for a term: an HTTP response, or the request raised.
\* The searches for "a" and "b" meet every kind of response, the others a
\* full page or a raised request.
SearchResponses(term) ==
    IF term \in {<<"a">>, <<"b">>}
    THEN [status : {HTTP_OK}, page : {FullPage(term), MixedPage(term)}]
           \cup {[status |-> 503, page |-> <<>>]}
           \cup {[raised |-> "Timeout"]}
    ELSE {[status |-> HTTP_OK, page |-> FullPage(term)], [raised |-> "Timeout"]}

Raised(r) == "raised" \in DOMAIN r

----------------------------------------------------------------------------
(* Progress messages and exceptions *)

Progress(msg) == [sig |-> "progress_updated", arg |-> msg]

MsgExtract == [msg |-> "Extracting search terms using Claude..."]
MsgSearches == [msg |-> "Performing Google searches..."]
MsgOptimize == [msg |-> "Optimizing content with Claude..."]
MsgTerm(term) == [msg |-> "Searching for", term |-> term]
MsgSearchError(term, e) == [msg |-> "Search error for", term |-> term, error |-> e]

\* Exception(f"Claude API error: {response.status_code} - {response.text}")
ApiError(r) == [error |-> "Claude API error", status |-> r.status, text |-> r.text]

NetworkError(r) == [error |-> r.raised]

StatusCompleted == [msg |-> "Optimization completed successfully!"]
StatusError == [msg |-> "Error occurred during processing."]
StatusEmpty == [msg |-> ""]

----------------------------------------------------------------------------
(* SEOWorkerThread *)

NoException == [error |-> "none"]

\* SEOWorkerThread(text, claude_api_key), just started
NewWorker(text, key) ==
    [pc |-> "emit_extract", text |-> text, claude_api_key |-> key,
     search_terms |-> <<>>, idx |-> 1, search_results |-> <<>>,
     optimized_text |-> <<>>, exc |-> NoException, log |-> <<>>]

EmitEntry(ev) == [op |-> "emit", sig |-> ev.sig, arg |-> ev.arg]

\* ForTerm leaving the loop one term early
ForTermSkipsLast(terms, idx) ==
    IF idx < Len(terms) THEN "emit_term" ELSE "emit_optimize"

\* the step that follows the end of one iteration of "for term in search_terms"
ForTerm(terms, idx) ==
    IF idx <= Len(terms) THEN "emit_term" ELSE "emit_optimize"

\* ExtractOutcome without the test of the status code
ExtractOutcomeAnyStatus(r) ==
    IF Raised(r) THEN [pc |-> "except", terms |-> <<>>, exc |-> NetworkError(r)]
    ELSE [pc |-> "emit_searches", terms |-> ParseTerms(r.text),
          exc |-> NoException]

\* what extract_search_terms makes of the response
ExtractOutcome(r) ==
    IF Raised(r) THEN [pc |-> "except", terms |-> <<>>, exc |-> NetworkError(r)]
    ELSE IF r.status = HTTP_OK
         THEN [pc |-> "emit_searches", terms |-> ParseTerms(r.text),
               exc |-> NoException]
         ELSE [pc |-> "except", terms |-> <<>>, exc |-> ApiError(r)]

\* the SearchResult objects one result page contributes
RECURSIVE PageResults(_)
PageResults(containers) ==
    IF containers = <<>> THEN <<>>
    ELSE LET c == Head(containers)
         IN  IF c.hasTitle /\ c.hasSnippet
             THEN <<[title |-> c.title, description |-> c.description,
                     url |-> c.url]>> \o PageResults(Tail(containers))
             ELSE PageResults(Tail(containers))

\* SearchOutcome without the try/except around the iteration
SearchOutcomeUncaught(r) ==
    IF Raised(r) THEN [pc |-> "except", results |-> <<>>,
                       exc |-> NetworkError(r)]
    ELSE IF r.status = HTTP_OK
         THEN [pc |-> "next", results |-> PageResults(Take(r.page, MaxPerPage)),
               exc |-> NoException]
         ELSE [pc |-> "next", results |-> <<>>, exc |-> NoException]

\* what one iteration of perform_searches makes of the response
SearchOutcome(r) ==
    IF Raised(r) THEN [pc |-> "search_except", results |-> <<>>,
                       exc |-> NetworkError(r)]
    ELSE IF r.status = HTTP_OK
         THEN [pc |-> "next", results |-> PageResults(Take(r.page, MaxPerPage)),
               exc |-> NoException]
         ELSE [pc |-> "next", results |-> <<>>, exc |-> NoException]

\* SearchContext without the [:20]
SearchContextAll(search_results) ==
    [i \in 1..Len(search_results) |->
        [title |-> search_results[i].title,
         description |-> search_results[i].description]]

\* the entries of search_context, before they are joined by "\n"
SearchContext(search_results) ==
    LET used == Take(search_results, MaxContext)
    IN  [i \in 1..Len(used) |->
            [title |-> used[i].title, description |-> used[i].description]]

\* RewriteOutcome with the response text stripped
RewriteOutcomeStripped(r) ==
    IF Raised(r) THEN [pc |-> "except", text |-> <<>>, exc |-> NetworkError(r)]
    ELSE IF r.status = HTTP_OK
         THEN [pc |-> "emit_finished", text |-> Strip(r.text),
               exc |-> NoException]
         ELSE [pc |-> "except", text |-> <<>>, exc |-> ApiError(r)]

\* RewriteOutcome returning an empty text where seo_optimize_text raises
RewriteOutcomeSwallows(r) ==
    IF ~Raised(r) /\ r.status = HTTP_OK
    THEN [pc |-> "emit_finished", text |-> r.text, exc |-> NoException]
    ELSE [pc |-> "emit_finished", text |-> <<>>, exc |-> NoException]

\* what seo_optimize_text makes of the response
RewriteOutcome(r) ==
    IF Raised(r) THEN [pc |-> "except", text |-> <<>>, exc |-> NetworkError(r)]
    ELSE IF r.status = HTTP_OK
         THEN [pc |-> "emit_finished", text |-> r.text, exc |-> NoException]
         ELSE [pc |-> "except", text |-> <<>>, exc |-> ApiError(r)]

\* signal.emit(arg) from the worker thread: queued to the GUI thread
Emit(w, ev, pc) ==
    /\ workers' = [workers EXCEPT ![w].pc = pc,
                                  ![w].log = Append(@, EmitEntry(ev))]
    /\ queue' = Append(queue, ev)

\* run, line 39
EmitExtracting(w) ==
    /\ workers[w].pc = "emit_extract"
    /\ Emit(w, Progress(MsgExtract), "extract")
    /\ UNCHANGED <<shellVars, started, harnessVars>>

\* run, line 40
ExtractSearchTerms(w) ==
    /\ workers[w].pc = "extract"
    /\ \E r \in ClaudeResponses(ExtractContents) :
         LET o == ExtractOutcome(r)
         IN  workers' = [workers EXCEPT
                 ![w].pc = o.pc,
                 ![w].search_terms = o.terms,
                 ![w].exc = o.exc,
                 ![w].log = Append(@, [op |-> "request", api |-> "extract",
                                       text |-> workers[w].text,
                                       key |-> workers[w].claude_api_key,
                                       response |-> r])]
    /\ UNCHANGED <<shellVars, queue, started, harnessVars>>

\* run, line 43, and the entry into the loop of perform_searches
EmitSearches(w) ==
    /\ workers[w].pc = "emit_searches"
    /\ Emit(w, Progress(MsgSearches), ForTerm(workers[w].search_terms, 1))
    /\ UNCHANGED <<shellVars, started, harnessVars>>

\* EmitTerm without the emit
EmitTermSilent(w) ==
    /\ workers[w].pc = "emit_term"
    /\ workers' = [workers EXCEPT ![w].pc = "get"]
    /\ UNCHANGED <<shellVars, queue, started, harnessVars>>

\* perform_searches, line 98
EmitTerm(w) ==
    /\ workers[w].pc = "emit_term"
    /\ Emit(w, Progress(MsgTerm(workers[w].search_terms[workers[w].idx])), "get")
    /\ UNCHANGED <<shellVars, started, harnessVars>>

\* perform_searches, lines 101-119
SearchGet(w) ==
    /\ workers[w].pc = "get"
    /\ LET wk == workers[w]
           term == wk.search_terms[wk.idx]
       IN  \E r \in SearchResponses(term) :
             LET o == SearchOutcome(r)
                 idx == IF o.pc = "next" THEN wk.idx + 1 ELSE wk.idx
             IN  workers' = [workers EXCEPT
                     ![w].pc = IF o.pc = "next"
                               THEN ForTerm(wk.search_terms, idx)
                               ELSE o.pc,
                     ![w].idx = idx,
                     ![w].search_results = @ \o o.results,
                     ![w].exc = o.exc,
                     ![w].log = Append(@, [op |-> "request", api |-> "search",
                                           term |-> term, response |-> r])]
    /\ UNCHANGED <<shellVars, queue, started, harnessVars>>

\* perform_searches, lines 121-123
SearchExcept(w) ==
    /\ workers[w].pc = "search_except"
    /\ LET wk == workers[w]
           ev == Progress(MsgSearchError(wk.search_terms[wk.idx], wk.exc))
       IN  /\ workers' = [workers EXCEPT
                  ![w].pc = ForTerm(wk.search_terms, wk.idx + 1),
                  ![w].idx = wk.idx + 1,
                  ![w].exc = NoException,
                  ![w].log = Append(@, EmitEntry(ev))]
           /\ queue' = Append(queue, ev)
    /\ UNCHANGED <<shellVars, started, harnessVars>>

\* run, line 47
EmitOptimizing(w) ==
    /\ workers[w].pc = "emit_optimize"
    /\ Emit(w, Progress(MsgOptimize), "optimize")
    /\ UNCHANGED <<shellVars, started, harnessVars>>

\* run, line 48
SeoOptimizeText(w) ==
    /\ workers[w].pc = "optimize"
    /\ \E r \in ClaudeResponses(RewriteContents) :
         LET o == RewriteOutcome(r)
         IN  workers' = [workers EXCEPT
                 ![w].pc = o.pc,
                 ![w].optimized_text = o.text,
                 ![w].exc = o.exc,
                 ![w].log = Append(@, [op |-> "request", api |-> "rewrite",
                                       text |-> workers[w].text,
                                       key |-> workers[w].claude_api_key,
                                       context |-> SearchContext(workers[w].search_results),
                                       response |-> r])]
    /\ UNCHANGED <<shellVars, queue, started, harnessVars>>

\* run, line 50: the last statement of the run
EmitFinished(w) ==
    /\ workers[w].pc = "emit_finished"
    /\ Emit(w, [sig |-> "finished", arg |-> workers[w].optimized_text], "done")
    /\ UNCHANGED <<shellVars, started, harnessVars>>

\* EmitError followed by the emission of finished, as a finally clause would
EmitErrorThenFinished(w) ==
    /\ workers[w].pc = "except"
    /\ Emit(w, [sig |-> "error_occurred", arg |-> workers[w].exc],
            "emit_finished")
    /\ UNCHANGED <<shellVars, started, harnessVars>>

\* run, lines 52-53: the last statement of the run
EmitError(w) ==
    /\ workers[w].pc = "except"
    /\ Emit(w, [sig |-> "error_occurred", arg |-> workers[w].exc], "done")
    /\ UNCHANGED <<shellVars, started, harnessVars>>

----------------------------------------------------------------------------
(* SEOOptimizerApp *)

WarnText == "Please enter text to optimize."
WarnKey == "Please enter your Claude API key."
CriticalError == "An error occurred"

\* Validate without the check of the text
ValidateKeyOnly(text, api_key) ==
    IF api_key = <<>> THEN WarnKey ELSE "ok"

\* the two checks of start_processing
Validate(text, api_key) ==
    IF text = <<>> THEN WarnText
    ELSE IF api_key = <<>> THEN WarnKey
    ELSE "ok"

\* threads that have not returned from run; a finished one is released when
\* self.worker is rebound
Running(ws) == SelectSeq(ws, LAMBDA wk : wk.pc # "done")

\* DisableUi leaving the button enabled
DisableUiForgotten ==
    /\ process_btn_enabled' = process_btn_enabled
    /\ progress_visible' = TRUE

\* start_processing, lines 570-572: no second click while a run is active
DisableUi ==
    /\ process_btn_enabled' = FALSE
    /\ progress_visible' = TRUE

\* ClearedOutput without the clear()
KeptOutput == output_text

\* start_processing, line 573: self.output_text.clear()
ClearedOutput == <<>>

\* a click on process_btn; a disabled button delivers no click
StartProcessing(rawText, rawKey) ==
    /\ process_btn_enabled
    /\ LET text == Strip(rawText)
           api_key == Strip(rawKey)
           v == Validate(text, api_key)
       IN  IF v # "ok"
           THEN /\ message_box' = v
                /\ UNCHANGED <<process_btn_enabled, progress_visible,
                               output_text, workers, started>>
           ELSE /\ started < MaxRuns
                /\ DisableUi
                /\ output_text' = ClearedOutput
                /\ workers' = Append(Running(workers), NewWorker(text, api_key))
                /\ started' = started + 1
                /\ message_box' = "none"
    /\ UNCHANGED <<status_label, queue, harnessVars>>

\* ResetUi without the re-enabling of the button
ResetUiHideOnly ==
    /\ process_btn_enabled' = process_btn_enabled
    /\ progress_visible' = FALSE

\* reset_ui
ResetUi ==
    /\ process_btn_enabled' = TRUE
    /\ progress_visible' = FALSE

\* update_status, run for a queued progress_updated
UpdateStatus ==
    /\ queue # <<>>
    /\ Head(queue).sig = "progress_updated"
    /\ status_label' = Head(queue).arg
    /\ message_box' = "none"
    /\ queue' = Tail(queue)
    /\ UNCHANGED <<process_btn_enabled, progress_visible, output_text,
                   workers, started, harnessVars>>

\* processing_finished, run for a queued finished
ProcessingFinished ==
    /\ queue # <<>>
    /\ Head(queue).sig = "finished"
    /\ output_text' = Head(queue).arg
    /\ status_label' = StatusCompleted
    /\ message_box' = "none"
    /\ ResetUi
    /\ queue' = Tail(queue)
    /\ UNCHANGED <<workers, started, harnessVars>>

\* processing_error, run for a queued error_occurred
ProcessingError ==
    /\ queue # <<>>
    /\ Head(queue).sig = "error_occurred"
    /\ message_box' = CriticalError
    /\ status_label' = StatusError
    /\ ResetUi
    /\ queue' = Tail(queue)
    /\ UNCHANGED <<output_text, workers, started, harnessVars>>

----------------------------------------------------------------------------
(* The session *)

Init ==
    /\ process_btn_enabled = TRUE
    /\ progress_visible = FALSE
    /\ output_text = <<>>
    /\ status_label = StatusEmpty
    /\ message_box = "none"
    /\ workers = <<>>
    /\ queue = <<>>
    /\ started = 0
    /\ content = <<>>
    /\ parsed = [done |-> FALSE, terms |-> <<>>]

WorkerStep(w) ==
    \/ EmitExtracting(w)
    \/ ExtractSearchTerms(w)
    \/ EmitSearches(w)
    \/ EmitTerm(w)
    \/ SearchGet(w)
    \/ SearchExcept(w)
    \/ EmitOptimizing(w)
    \/ SeoOptimizeText(w)
    \/ EmitFinished(w)
    \/ EmitError(w)

Click == \E rawText \in InputTexts, rawKey \in ApiKeys :
             StartProcessing(rawText, rawKey)

Dispatch == UpdateStatus \/ ProcessingFinished \/ ProcessingError

Next ==
    \/ Click
    \/ Dispatch
    \/ \E w \in 1..Len(workers) : WorkerStep(w)

Spec == Init /\ [][Next]_vars

----------------------------------------------------------------------------
(* The parsing of an extract response, on its own: a response text arrives *)
(* line by line and is parsed as extract_search_terms parses it             *)

\* the lines a response is made of: a term, a padded term, a blank line
ResponseLines == { <<"a">>, <<" ", "b", " ">>, <<" ">> }

NewlinesIn(s) == {i \in 1..Len(s) : s[i] = NL}

InitParse ==
    /\ Init!1 /\ Init!2 /\ Init!3 /\ Init!4 /\ Init!5
    /\ Init!6 /\ Init!7 /\ Init!8
    /\ content \in {<<>>, <<"a">>}
    /\ parsed = [done |-> FALSE, terms |-> <<>>]

ReceiveLine(line) ==
    /\ ~parsed.done
    /\ Cardinality(NewlinesIn(content)) + 1 < MaxLines
    /\ content' = content \o <<NL>> \o line
    /\ UNCHANGED <<shellVars, workers, queue, started, parsed>>

\* extract_search_terms, lines 84-86
ParseResponse ==
    /\ ~parsed.done
    /\ parsed' = [done |-> TRUE, terms |-> ParseTerms(content)]
    /\ UNCHANGED <<shellVars, workers, queue, started, content>>

NextParse ==
    \/ \E line \in ResponseLines : ReceiveLine(line)
    \/ ParseResponse

SpecParse == InitParse /\ [][NextParse]_vars

\* the worker thread keeps running and every network call returns or raises;
\* the GUI event loop keeps delivering queued signals
FairSpec ==
    /\ Spec
    /\ WF_vars(\E w \in 1..Len(workers) : WorkerStep(w))
    /\ WF_vars(Dispatch)

----------------------------------------------------------------------------
(* Properties *)

Emits(wk) == SelectSeq(wk.log, LAMBDA e : e.op = "emit")

Requests(wk, api) ==
    SelectSeq(wk.log, LAMBDA e : e.op = "request" /\ e.api = api)

Terminal(e) == e.op = "emit" /\ e.sig \in {"finished", "error_occurred"}

TerminalCount(wk) == Len(SelectSeq(wk.log, Terminal))

Succeeded(rq) == ~Raised(rq.response) /\ rq.response.status = HTTP_OK

Worker(P(_)) == \A w \in 1..Len(workers) : P(workers[w])

SomeWorker(P(_)) == \E w \in 1..Len(workers) : P(workers[w])

AllDone == Worker(LAMBDA wk : wk.pc = "done")

\* C1: a run emits progress events and then exactly one terminal event,
\* finished carrying the result or error_occurred carrying the error: at most
\* one while it runs, exactly one once it has ended, and nothing after it.
C1_OneTerminalEvent ==
    Worker(LAMBDA wk :
        LET em == Emits(wk)
        IN  /\ TerminalCount(wk) <= 1
            /\ \A i \in 1..Len(em) : Terminal(em[i]) => i = Len(em)
            /\ wk.pc = "done" <=> TerminalCount(wk) = 1
            /\ \A i \in 1..Len(em) :
                 /\ em[i].sig = "finished" => em[i].arg = wk.optimized_text
                 /\ em[i].sig = "error_occurred" =>
                      em[i].arg = wk.exc /\ wk.exc # NoException)

C1_Witness ==
    SomeWorker(LAMBDA wk :
        /\ wk.pc = "done"
        /\ Len(Emits(wk)) > 4
        /\ Emits(wk)[Len(Emits(wk))].sig = "finished"
        /\ queue # <<>>
        /\ queue[Len(queue)].sig = "finished")

\* C2: when the extract request is answered with a status other than 200, the
\* run ends with error_occurred carrying that status, and the run issues no
\* search query and no rewrite request.
C2_ExtractFailureStops ==
    Worker(LAMBDA wk :
        \A i \in 1..Len(wk.log) :
            LET e == wk.log[i]
            IN  (e.op = "request" /\ e.api = "extract" /\ ~Raised(e.response)
                   /\ e.response.status # HTTP_OK)
                => /\ Requests(wk, "search") = <<>>
                   /\ Requests(wk, "rewrite") = <<>>
                   /\ \A j \in 1..Len(wk.log) : wk.log[j].op = "emit" =>
                        wk.log[j].sig # "finished"
                   /\ wk.pc \in {"except", "done"}
                   /\ wk.pc = "done" =>
                        /\ i + 1 = Len(wk.log)
                        /\ wk.log[i + 1].op = "emit"
                        /\ wk.log[i + 1].sig = "error_occurred"
                        /\ wk.log[i + 1].arg.status = e.response.status)

C2_Witness ==
    SomeWorker(LAMBDA wk :
        /\ wk.pc = "done"
        /\ Len(Requests(wk, "extract")) = 1
        /\ ~Raised(Requests(wk, "extract")[1].response)
        /\ Requests(wk, "extract")[1].response.status = ErrorStatus)

\* the results of the searches of a log that were answered
RECURSIVE Collected(_)
Collected(log) ==
    IF log = <<>> THEN <<>>
    ELSE LET e == Head(log)
         IN  IF e.op = "request" /\ e.api = "search" /\ Succeeded(e)
             THEN PageResults(Take(e.response.page, MaxPerPage))
                    \o Collected(Tail(log))
             ELSE Collected(Tail(log))

SearchRaised(e) == e.op = "request" /\ e.api = "search" /\ Raised(e.response)

\* C3: a search that raises is followed by a progress notification of the
\* error and by the search of the next term; once the searches are over every
\* extracted term was queried, in order; the rewrite request is made with the
\* results of the answered searches; and error_occurred is only ever emitted
\* for the failure of the extract or of the rewrite request.
C3_SearchFailureNotFatal ==
    Worker(LAMBDA wk :
        /\ \A i \in 1..Len(wk.log) :
             /\ SearchRaised(wk.log[i]) =>
                  /\ i = Len(wk.log) => wk.pc = "search_except"
                  /\ i < Len(wk.log) =>
                       /\ wk.log[i + 1].op = "emit"
                       /\ wk.log[i + 1].sig = "progress_updated"
                       /\ wk.log[i + 1].arg =
                            MsgSearchError(wk.log[i].term,
                                           NetworkError(wk.log[i].response))
             /\ (wk.log[i].op = "emit" /\ wk.log[i].sig = "error_occurred") =>
                  /\ i > 1
                  /\ wk.log[i - 1].op = "request"
                  /\ wk.log[i - 1].api \in {"extract", "rewrite"}
                  /\ ~Succeeded(wk.log[i - 1])
        /\ (wk.pc \in {"emit_optimize", "optimize", "emit_finished"}
              \/ Requests(wk, "rewrite") # <<>>) =>
             /\ Len(Requests(wk, "search")) = Len(wk.search_terms)
             /\ \A k \in 1..Len(wk.search_terms) :
                  Requests(wk, "search")[k].term = wk.search_terms[k]
        /\ (wk.pc = "done"
              /\ Requests(wk, "extract") # <<>>
              /\ Succeeded(Requests(wk, "extract")[1])) =>
             Len(Requests(wk, "rewrite")) = 1
        /\ \A k \in 1..Len(Requests(wk, "rewrite")) :
             Requests(wk, "rewrite")[k].context
               = SearchContext(Collected(wk.log)))

C3_Witness ==
    SomeWorker(LAMBDA wk :
        /\ wk.pc = "done"
        /\ Len(wk.search_terms) = 2
        /\ SearchRaised(Requests(wk, "search")[1])
        /\ Succeeded(Requests(wk, "search")[2])
        /\ Len(Requests(wk, "rewrite")) = 1
        /\ Requests(wk, "rewrite")[1].context # <<>>
        /\ Emits(wk)[Len(Emits(wk))].sig = "finished")

\* the text read off a response without the parser: the positions of its
\* newlines, its k-th line, the lines that are not blank, and a line without
\* its surrounding whitespace
Indices(s) == [i \in 1..Len(s) |-> i]

NewlineSeq(s) == SelectSeq(Indices(s), LAMBDA i : s[i] = NL)

LineOf(s, nl, k) ==
    SubSeq(s, IF k = 1 THEN 1 ELSE nl[k - 1] + 1,
              IF k = Len(nl) + 1 THEN Len(s) ELSE nl[k] - 1)

Inked(line) == SelectSeq(Indices(line), LAMBDA i : line[i] \notin Whitespace)

NonBlank(s, nl) ==
    SelectSeq([k \in 1..(Len(nl) + 1) |-> k],
              LAMBDA k : Inked(LineOf(s, nl, k)) # <<>>)

Trimmed(line) ==
    LET ink == Inked(line) IN SubSeq(line, ink[1], ink[Len(ink)])

\* C4: the parsed terms are at most 10, none is empty or has surrounding
\* whitespace, and they are the first (up to 10) non-blank lines of the
\* response, trimmed, in their order.
C4_ParsedTerms ==
    parsed.done =>
        LET terms == parsed.terms
            nl == NewlineSeq(content)
            nb == NonBlank(content, nl)
        IN  /\ Len(terms) <= 10
            /\ Len(terms) = Min(10, Len(nb))
            /\ \A k \in 1..Len(terms) :
                 /\ terms[k] # <<>>
                 /\ terms[k][1] \notin Whitespace
                 /\ terms[k][Len(terms[k])] \notin Whitespace
                 /\ terms[k] = Trimmed(LineOf(content, nl, nb[k]))

C4_Witness ==
    /\ parsed.done
    /\ Len(NonBlank(content, NewlineSeq(content))) > 10
    /\ Len(parsed.terms) = 10
    /\ LineOf(content, NewlineSeq(content), 2) = <<" ", "b", " ">>
    /\ parsed.terms[2] = <<"b">>

\* C5: the context of a rewrite request has at most 20 entries, and they are
\* the titles and descriptions of the first 20 collected results, in order.
C5_ContextLimit ==
    Worker(LAMBDA wk :
        \A k \in 1..Len(Requests(wk, "rewrite")) :
            LET ctx == Requests(wk, "rewrite")[k].context
            IN  /\ Len(ctx) <= 20
                /\ Len(ctx) = Min(20, Len(wk.search_results))
                /\ \A i \in 1..Len(ctx) :
                     /\ ctx[i].title = wk.search_results[i].title
                     /\ ctx[i].description = wk.search_results[i].description)

C5_Witness ==
    SomeWorker(LAMBDA wk :
        /\ Len(wk.search_results) > 20
        /\ Len(Requests(wk, "rewrite")) = 1
        /\ Len(Requests(wk, "rewrite")[1].context) = 20)

\* C6: a run that collected no search result still makes the rewrite
\* request, with an empty context, and its finished signal carries the text
\* of the rewrite response as it was received.
C6_EmptyContextRewrite ==
    Worker(LAMBDA wk :
        (wk.search_results = <<>> /\ Collected(wk.log) = <<>>) =>
            /\ (wk.pc \in {"emit_finished", "done"}
                  /\ Requests(wk, "extract") # <<>>
                  /\ Succeeded(Requests(wk, "extract")[1])) =>
                 Len(Requests(wk, "rewrite")) = 1
            /\ \A k \in 1..Len(Requests(wk, "rewrite")) :
                 Requests(wk, "rewrite")[k].context = <<>>
            /\ \A i \in 1..Len(wk.log) :
                 (wk.log[i].op = "emit" /\ wk.log[i].sig = "finished") =>
                     /\ Len(Requests(wk, "rewrite")) = 1
                     /\ Succeeded(Requests(wk, "rewrite")[1])
                     /\ wk.log[i].arg = Requests(wk, "rewrite")[1].response.text)

C6_Witness ==
    SomeWorker(LAMBDA wk :
        /\ wk.pc = "done"
        /\ Len(wk.search_terms) = 2
        /\ \A k \in 1..2 : SearchRaised(Requests(wk, "search")[k])
        /\ Requests(wk, "rewrite")[1].context = <<>>
        /\ Emits(wk)[Len(Emits(wk))] =
             [op |-> "emit", sig |-> "finished", arg |-> <<" ", "o", NL>>])

\* C7: a click with an empty text or an empty key starts nothing: every
\* worker, and every language-model request, has a non-empty text and key,
\* and after the warning the button is still enabled and no run is active.
C7_RejectedBeforeRun ==
    /\ Worker(LAMBDA wk :
          /\ wk.text # <<>>
          /\ wk.claude_api_key # <<>>
          /\ \A i \in 1..Len(wk.log) :
               (wk.log[i].op = "request" /\ wk.log[i].api \in {"extract", "rewrite"})
                  => wk.log[i].text # <<>> /\ wk.log[i].key # <<>>)
    /\ message_box \in {WarnText, WarnKey} =>
          /\ process_btn_enabled
          /\ ~progress_visible
          /\ AllDone

C7_Witness ==
    /\ message_box = WarnText
    /\ workers = <<>>
    /\ queue = <<>>
    /\ started = 0

\* C8: at most one worker is between its start and its terminal event, and
\* while one is the button is disabled.
C8_OneActiveRun ==
    /\ Len(Running(workers)) <= 1
    /\ Running(workers) # <<>> => ~process_btn_enabled

C8_Witness ==
    /\ started = 2
    /\ Len(workers) = 1
    /\ workers[1].pc = "get"
    /\ queue # <<>>
    /\ ~process_btn_enabled

FailedRequest(e) ==
    e.op = "request" /\ e.api \in {"extract", "rewrite"} /\ ~Succeeded(e)

ErrorOf(r) == IF Raised(r) THEN NetworkError(r) ELSE ApiError(r)

\* C9: a run that emits error_occurred emits no finished; the failure of the
\* extract or of the rewrite request gives one error_occurred, carrying that
\* error; and the output display is empty while the status shows the error.
C9_NoPartialOutput ==
    /\ Worker(LAMBDA wk :
          /\ (\E i \in 1..Len(wk.log) :
                wk.log[i].op = "emit" /\ wk.log[i].sig = "error_occurred")
               => /\ \A j \in 1..Len(wk.log) :
                       wk.log[j].op = "emit" => wk.log[j].sig # "finished"
                  /\ wk.optimized_text = <<>>
          /\ \A i \in 1..Len(wk.log) :
               (FailedRequest(wk.log[i]) /\ wk.pc = "done") =>
                  /\ Len(SelectSeq(wk.log, LAMBDA e :
                         e.op = "emit" /\ e.sig = "error_occurred")) = 1
                  /\ wk.log[Len(wk.log)] =
                       [op |-> "emit", sig |-> "error_occurred",
                        arg |-> ErrorOf(wk.log[i].response)])
    /\ \A k \in 1..Len(queue) :
          queue[k].sig = "error_occurred" => output_text = <<>>
    /\ status_label = StatusError => output_text = <<>>

C9_Witness ==
    /\ started = 2
    /\ status_label = StatusError
    /\ output_text = <<>>
    /\ queue = <<>>
    /\ SomeWorker(LAMBDA wk :
          /\ wk.pc = "done"
          /\ Len(Requests(wk, "rewrite")) = 1
          /\ ~Succeeded(Requests(wk, "rewrite")[1]))

\* C10: every run that has started reaches its terminal event, and whenever
\* the button is disabled it is eventually enabled again, with the progress
\* bar hidden.
C10_Rearms ==
    /\ (~AllDone) ~> AllDone
    /\ (~process_btn_enabled) ~> (process_btn_enabled /\ ~progress_visible)

C10_Witness ==
    /\ started >= 1
    /\ AllDone
    /\ queue = <<>>
    /\ process_btn_enabled
    /\ ~progress_visible
    /\ message_box = CriticalError

AllRequests(wk) == SelectSeq(wk.log, LAMBDA e : e.op = "request")

StepMessages(wk) ==
    SelectSeq(wk.log, LAMBDA e :
        /\ e.op = "emit"
        /\ e.sig = "progress_updated"
        /\ e.arg \in {MsgExtract, MsgSearches, MsgOptimize})

\* C11: the requests of a run are, in this order, the extract request, one
\* search per extracted term in the order of the terms, and the rewrite
\* request; each language-model request is made at most once; the three
\* steps are announced in their order, each once; and finished is emitted
\* only after all of them.
C11_SequentialSteps ==
    Worker(LAMBDA wk :
        LET reqs == AllRequests(wk)
            n == Len(wk.search_terms)
            steps == StepMessages(wk)
        IN  /\ Len(Requests(wk, "extract")) <= 1
            /\ Len(Requests(wk, "rewrite")) <= 1
            /\ Len(reqs) <= n + 2
            /\ Len(reqs) >= 2 => Succeeded(reqs[1])
            /\ \A k \in 1..Len(reqs) :
                 IF k = 1 THEN reqs[k].api = "extract"
                 ELSE IF k <= n + 1
                      THEN /\ reqs[k].api = "search"
                           /\ reqs[k].term = wk.search_terms[k - 1]
                      ELSE reqs[k].api = "rewrite"
            /\ Len(steps) <= 3
            /\ \A k \in 1..Len(steps) :
                 steps[k].arg = <<MsgExtract, MsgSearches, MsgOptimize>>[k]
            /\ (\E i \in 1..Len(wk.log) :
                  wk.log[i].op = "emit" /\ wk.log[i].sig = "finished") =>
                 /\ Len(reqs) = n + 2
                 /\ Succeeded(reqs[n + 2])
                 /\ Len(steps) = 3)

C11_Witness ==
    SomeWorker(LAMBDA wk :
        /\ wk.pc = "done"
        /\ Len(wk.search_terms) = 5
        /\ Len(AllRequests(wk)) = 7
        /\ wk.log[Len(wk.log)].sig = "finished")

\* the states of the run, read off the position of the thread
NonTerminalPcs ==
    {"emit_extract", "extract",                             \* Idle, ExtractingTerms
     "emit_searches", "emit_term", "get", "search_except",  \* Searching
     "emit_optimize", "optimize"}                           \* Optimizing

NonTerminal(w) == w <= Len(workers) /\ workers[w].pc \in NonTerminalPcs

Ended(w) == w <= Len(workers) /\ TerminalCount(workers[w]) >= 1

\* the step that raises out of run's try block
FailStep(w) == WorkerStep(w) /\ workers'[w].pc = "except"

FailPossible(w) == w <= Len(workers) /\ ENABLED FailStep(w)

\* C12: a run that has emitted finished or error_occurred can take no
\* further step, so it makes no further request; and from every earlier
\* state of a run a state is reached in which the step into the failure
\* path can be taken.
C12_TerminalStates ==
    \A w \in 1..MaxRuns :
        /\ [](Ended(w) => workers[w].pc = "done" /\ ~ENABLED WorkerStep(w))
        /\ NonTerminal(w) ~> FailPossible(w)

C12_Witness ==
    /\ Ended(1)
    /\ workers[1].log[Len(workers[1].log)].sig = "error_occurred"
    /\ Len(Requests(workers[1], "search")) = 2
    /\ Len(Requests(workers[1], "rewrite")) = 1
    /\ ~ENABLED WorkerStep(1)

\* the progress message that announces a request
Announcement(rq) ==
    IF rq.api = "extract" THEN MsgExtract
    ELSE IF rq.api = "search" THEN MsgTerm(rq.term)
    ELSE MsgOptimize

IsProgress(e, msg) ==
    e.op = "emit" /\ e.sig = "progress_updated" /\ e.arg = msg

\* C13: every request of a run is immediately preceded by the emission of
\* the progress message of its step (extract, rewrite) or of its term
\* (search), and the searches as a whole are announced between the extract
\* request and the first search.
C13_ProgressBeforeRequest ==
    Worker(LAMBDA wk :
        \A i \in 1..Len(wk.log) :
            wk.log[i].op = "request" =>
                /\ i > 1
                /\ IsProgress(wk.log[i - 1], Announcement(wk.log[i]))
                /\ wk.log[i].api \in {"search", "rewrite"} =>
                     \E j \in 1..(i - 1), k \in 1..(i - 1) :
                        /\ j < k
                        /\ wk.log[j].op = "request"
                        /\ wk.log[j].api = "extract"
                        /\ IsProgress(wk.log[k], MsgSearches))

C13_Witness ==
    SomeWorker(LAMBDA wk :
        /\ wk.pc = "done"
        /\ Len(Requests(wk, "search")) = 2
        /\ Requests(wk, "search")[1].response = [status |-> 503, page |-> <<>>]
        /\ SearchRaised(Requests(wk, "search")[2])
        /\ Len(Requests(wk, "rewrite")) = 1
        /\ Len(Emits(wk)) = 7)

====
